---- MODULE Spec2Model ----
(***************************************************************************)
(* Model of the 2D wagering ledger and settlement engine (Deno KV + Hono). *)
(*                                                                         *)
(* The store is Deno KV: every key carries a versionstamp that changes on  *)
(* every write of that key; kv.set is an unconditional write;              *)
(* kv.atomic().check(entry).set(...).commit() writes only when the key's   *)
(* versionstamp still equals the one of the entry that was read.           *)
(* Every `await` of a handler is a point where other handlers may run, so  *)
(* every store access of a handler is one action.                          *)
(*                                                                         *)
(* A two-digit number string "ab" is the sequence <<"a","b">> of its       *)
(* characters.  The clock is a position on Timeline; the civil day and     *)
(* hour in Asia/Yangon are read off that position, and the position itself *)
(* is the millisecond timestamp (Date.now()).  Authentication (cookies,     *)
(* password hashes, the admin flag) belongs to the web layer and is left   *)
(* out: a handler starts with the identity it was called with.             *)
(***************************************************************************)
EXTENDS Integers, Sequences, FiniteSets, TLC

VARIABLES
    now,        \* the clock: an index into Timeline
    users,      \* ["users", username] -> User (balance) with its versionstamp
    bets,       \* ["2d_bets", date, username, id] -> TwoDBet, by id
    results,    \* ["results", date, session] -> TwoDResult
    pl,         \* the running POST /api/2d/bet handlers
    tu,         \* the running POST /admin/topup handlers
    sw,         \* the running POST /admin/result handlers (process2DWinnings)
    rg,         \* the running POST /register handlers
    vw,         \* the running GET /2d handlers
    paid        \* history: how often each wager's payout has been credited

vars == <<now, users, bets, results, pl, tu, sw, rg, vw, paid>>

----------------------------------------------------------------------------
(* Bounds and program constants *)

\* ids crypto.randomUUID() can return: 1..MaxBets
MaxBets == 4
\* entries kv.list reads per batch (one consistent snapshot per batch)
BatchSize == 1
\* balances of the account u1 in the initial state
InitBalance == 200
LowBalance == 100

MinAmount == 100
MiddayHour == 12
CutoffHour == 16
Multiplier == 80

Usernames == {"u1", "u2"}
Sessions == {"Morning", "Evening"}
Digits == <<"0", "1", "2", "3", "4", "5", "6", "7", "8", "9">>
DigitSet == {Digits[i] : i \in 1..10}

\* civil time in Asia/Yangon at each clock position
Timeline == << [day |-> 1, hour |-> 11], [day |-> 1, hour |-> 12],
               [day |-> 1, hour |-> 16], [day |-> 2, hour |-> 9] >>

Placers == {"p1", "p2"}
TopUppers == {"t1"}
Sweepers == {"s1", "s2"}
Registrars == {"r1", "r2"}
Viewers == {"v1"}
Ids == 1..MaxBets

----------------------------------------------------------------------------
(* Types *)

NoUser == [exists |-> FALSE, balance |-> 0, ver |-> 0]
NoBet == [username |-> "", number |-> <<>>, amount |-> 0, date |-> 0,
          session |-> "", status |-> "none", timestamp |-> 0]
NoResult == [exists |-> FALSE, twod |-> <<>>, time |-> ""]

\* new Date().toLocaleDateString("en-CA", {timeZone: "Asia/Yangon"}).
\* POST /api/2d/bet formats dateObj, the Yangon wall clock re-read in the
\* server's zone; on a UTC server that is the same civil day for every hour
\* before the cutoff, which is the case modelled.
Today(t) == Timeline[t].day
\* new Date(new Date().toLocaleString("en-US", {timeZone})).getHours()
HourOf(t) == Timeline[t].hour

\* order of the usernames inside a kv.list key range
UserRank(u) == IF u = "u1" THEN 1 ELSE 2

----------------------------------------------------------------------------
(* BetExpansionEngine: the bet type logic of POST /api/2d/bet *)

Whitespace == {" "}

\* String.prototype.trim on a sequence of characters
RECURSIVE TrimLeft(_)
TrimLeft(s) == IF s # <<>> /\ Head(s) \in Whitespace THEN TrimLeft(Tail(s)) ELSE s

RECURSIVE TrimRight(_)
TrimRight(s) ==
    IF s # <<>> /\ s[Len(s)] \in Whitespace
    THEN TrimRight(SubSeq(s, 1, Len(s) - 1)) ELSE s

Trim(s) == TrimRight(TrimLeft(s))

\* the test of the digits without the test of the length
IsDigitsAnyLength(s, n) == \A i \in 1..Len(s) : s[i] \in DigitSet

\* /^\d{n}$/.test(s)
IsDigits(s, n) == Len(s) = n /\ \A i \in 1..Len(s) : s[i] \in DigitSet

\* number.split('').reverse().join('')
Reverse(s) == [i \in 1..Len(s) |-> s[Len(s) + 1 - i]]

\* for(let i=0; i<10; i++) numbersToBet.push(`${i}${i}`)
DoubleNumbers == [i \in 1..10 |-> <<Digits[i], Digits[i]>>]
\* the head loop with the digits in the order of the tail loop
HeadNumbersAsTail(number) == [i \in 1..10 |-> <<Digits[i]>> \o number]
\* for(let i=0; i<10; i++) numbersToBet.push(`${number}${i}`)
HeadNumbers(number) == [i \in 1..10 |-> number \o <<Digits[i]>>]
\* the tail loop with the digits in the order of the head loop
TailNumbersAsHead(number) == [i \in 1..10 |-> number \o <<Digits[i]>>]
\* for(let i=0; i<10; i++) numbersToBet.push(`${i}${number}`)
TailNumbers(number) == [i \in 1..10 |-> <<Digits[i]>> \o number]
\* the reversal pushed without the test rev !== number
ReverseNumbersAlwaysTwo(number) == <<number, Reverse(number)>>
\* numbersToBet.push(number); if (rev !== number) numbersToBet.push(rev)
ReverseNumbers(number) ==
    IF Reverse(number) # number THEN <<number, Reverse(number)>> ELSE <<number>>

\* numbersToBet for (betType, number), or the 400 answer of the branch
Expand(betType, number) ==
    IF betType = "double" THEN [ok |-> TRUE, nums |-> DoubleNumbers]
    ELSE IF betType = "head" THEN
        IF ~IsDigits(number, 1) THEN [ok |-> FALSE, nums |-> <<>>]
        ELSE [ok |-> TRUE, nums |-> HeadNumbers(number)]
    ELSE IF betType = "tail" THEN
        IF ~IsDigits(number, 1) THEN [ok |-> FALSE, nums |-> <<>>]
        ELSE [ok |-> TRUE, nums |-> TailNumbers(number)]
    ELSE IF betType = "r" THEN
        IF ~IsDigits(number, 2) THEN [ok |-> FALSE, nums |-> <<>>]
        ELSE [ok |-> TRUE, nums |-> ReverseNumbers(number)]
    ELSE IF betType = "direct" THEN
        IF ~IsDigits(number, 2) THEN [ok |-> FALSE, nums |-> <<>>]
        ELSE [ok |-> TRUE, nums |-> <<number>>]
    ELSE [ok |-> FALSE, nums |-> <<>>]

\* a resolver that closes a session once its result is stored
SessionOfUnlessPublished(hour) ==
    LET session == IF hour < MiddayHour THEN "Morning"
                   ELSE IF hour < CutoffHour THEN "Evening" ELSE "Closed"
    IN IF session # "Closed" /\ results[<<Timeline[now].day, session>>].exists
       THEN "Closed" ELSE session

\* a resolver without the cutoff of the afternoon
SessionOfNoCutoff(hour) == IF hour < MiddayHour THEN "Morning" ELSE "Evening"

\* SessionWindowResolver: hour < 12 Morning, hour < 16 Evening, else closed
SessionOf(hour) ==
    IF hour < MiddayHour THEN "Morning"
    ELSE IF hour < CutoffHour THEN "Evening"
    ELSE "Closed"

----------------------------------------------------------------------------
(* The store *)

\* a store with one versionstamp for all accounts
PutUserOneVersion(us, u, balance) ==
    [w \in DOMAIN us |->
        IF w = u THEN [exists |-> TRUE, balance |-> balance, ver |-> us[w].ver + 1]
        ELSE [us[w] EXCEPT !.ver = @ + 1]]

\* kv.set / atomic().set of ["users", u]: a new value and a new versionstamp
PutUser(us, u, balance) ==
    [us EXCEPT ![u] = [exists |-> TRUE, balance |-> balance, ver |-> @.ver + 1]]

\* the ids of the stored wagers
StoredIds == {id \in DOMAIN bets : bets[id].status # "none"}

----------------------------------------------------------------------------
(* POST /api/2d/bet *)

PlIdle == [pc |-> "idle", owner |-> "", user |-> NoUser, amount |-> 0,
           nums |-> <<>>, session |-> "", date |-> 0, chk |-> 0, i |-> 0,
           result |-> "", newBalance |-> 0, preBal |-> 0, debited |-> FALSE,
           ids |-> {}, betType |-> "", number |-> <<>>, tries |-> 0,
           hour |-> 0, nan |-> FALSE, afterSettle |-> FALSE]

\* the cost of one number taken for the cost of all
TotalCostOneStake(p) == pl[p].amount

\* const totalCost = numbersToBet.length * amount
TotalCost(p) == Len(pl[p].nums) * pl[p].amount

\* the balance check left out
InsufficientOff(balance, n, amount) == FALSE

\* the balance check against the stake of one number only
InsufficientStake(balance, n, amount) == balance < amount

\* if (user.balance < totalCost), with totalCost = numbersToBet.length * amount
Insufficient(balance, n, amount) == balance < n * amount

\* getSessionUser(c): the account is read here, once
PlaceAuth(p, owners) ==
    /\ pl[p].pc = "idle"
    /\ \E owner \in owners :
        pl' = [pl EXCEPT ![p] =
                IF users[owner].exists
                THEN [@ EXCEPT !.pc = "auth", !.owner = owner, !.user = users[owner]]
                ELSE [@ EXCEPT !.pc = "done", !.owner = owner,
                               !.result = "Unauthorized"]]
    /\ UNCHANGED <<now, users, bets, results, tu, sw, rg, vw, paid>>

\* c.req.json(), the amount check, the session, the bet type logic and the
\* balance check against the account read by getSessionUser
PlaceValidate(p, types, raws, amounts, nans, absents) ==
    /\ pl[p].pc = "auth"
    /\ \E betType \in types, raw \in raws, amount \in amounts, nan \in nans,
          absent \in absents :
        LET number == Trim(raw)
            session == SessionOf(HourOf(now))
            ex == Expand(betType, number)
            fail(r) == [pl[p] EXCEPT !.pc = "done", !.result = r,
                                     !.betType = betType, !.number = number,
                                     !.hour = HourOf(now), !.amount = amount,
                                     !.nan = nan]
        IN pl' = [pl EXCEPT ![p] =
                \* (rawNumber as string).trim() throws on an absent number
                IF absent THEN [fail("InternalError") EXCEPT !.number = <<>>]
                ELSE IF nan \/ amount < MinAmount THEN fail("ValidationError")
                ELSE IF session = "Closed" THEN fail("MarketClosed")
                ELSE IF ~ex.ok THEN fail("ValidationError")
                ELSE IF Insufficient(pl[p].user.balance, Len(ex.nums), amount)
                     THEN [fail("InsufficientFunds") EXCEPT
                              !.amount = amount, !.nums = ex.nums]
                ELSE [@ EXCEPT !.pc = "preread", !.amount = amount,
                               !.nums = ex.nums, !.session = session,
                               !.date = Today(now), !.betType = betType,
                               !.number = number, !.hour = HourOf(now),
                               !.afterSettle =
                                   /\ results[<<Today(now), session>>].exists
                                   /\ \E s \in Sweepers :
                                       /\ sw[s].pc = "done"
                                       /\ sw[s].result = "Settled"
                                       /\ sw[s].today = Today(now)
                                       /\ sw[s].session = session]]
    /\ UNCHANGED <<now, users, bets, results, tu, sw, rg, vw, paid>>

\* await kv.get(["users", user.username]): the entry handed to check()
PlacePreRead(p) ==
    /\ pl[p].pc = "preread"
    /\ pl' = [pl EXCEPT ![p] = [@ EXCEPT !.pc = "commit",
                                         !.chk = users[pl[p].owner].ver]]
    /\ UNCHANGED <<now, users, bets, results, tu, sw, rg, vw, paid>>

\* the balance a placement writes: { ...user, balance: user.balance - totalCost }
DebitedBalance(p) == pl[p].user.balance - TotalCost(p)

\* a handler that goes on to save the wagers whatever the commit answered
AfterCommitIgnored(ok) == "save"

\* if (!res.ok) return "Transaction conflict"; else the wagers are saved
AfterCommit(ok) == IF ok THEN "save" ELSE "done"

\* kv.atomic().check(entry).set(["users", ...], {...}).commit()
PlaceCommit(p) ==
    /\ pl[p].pc = "commit"
    /\ LET ok == users[pl[p].owner].ver = pl[p].chk IN
        /\ users' = IF ok THEN PutUser(users, pl[p].owner, DebitedBalance(p))
                    ELSE users
        /\ pl' = [pl EXCEPT ![p] = [@ EXCEPT !.pc = AfterCommit(ok), !.i = 1,
                    !.debited = ok, !.tries = @ + 1,
                    !.result = IF AfterCommit(ok) = "done"
                               THEN "ConcurrencyConflict" ELSE @,
                    !.preBal = users[pl[p].owner].balance]]
    /\ UNCHANGED <<now, bets, results, tu, sw, rg, vw, paid>>

\* the ids no stored wager has
FreeIds == DOMAIN bets \ StoredIds

\* a wager that carries its share of the stake of the placement
NewBetSplitStake(p) ==
    [username |-> pl[p].owner, number |-> pl[p].nums[pl[p].i],
     amount |-> pl[p].amount \div Len(pl[p].nums), date |-> pl[p].date,
     session |-> pl[p].session, status |-> "pending", timestamp |-> now]

\* const bet: TwoDBet = { id, username, number: num, amount, date: today,
\* session, status: "pending", timestamp: Date.now() }
NewBet(p) ==
    [username |-> pl[p].owner, number |-> pl[p].nums[pl[p].i],
     amount |-> pl[p].amount, date |-> pl[p].date,
     session |-> pl[p].session, status |-> "pending", timestamp |-> now]

\* one round of the loop: kv.set(["2d_bets", today, username, bet.id], bet),
\* with crypto.randomUUID() drawing the id from ids
PlaceSaveBetIn(p, ids) ==
    /\ pl[p].pc = "save"
    /\ \E id \in ids :
        /\ bets' = [bets EXCEPT ![id] = NewBet(p)]
        /\ pl' = [pl EXCEPT ![p] = [@ EXCEPT
                !.pc = IF pl[p].i = Len(pl[p].nums) THEN "final" ELSE "save",
                !.i = @ + 1, !.ids = @ \cup {id}]]
    /\ UNCHANGED <<now, users, results, tu, sw, rg, vw, paid>>

PlaceSaveBet(p) == PlaceSaveBetIn(p, FreeIds)

\* a handler that catches the fault of a write and goes on with the loop
SaveFaultSwallowed(rec) ==
    [rec EXCEPT !.pc = IF rec.i = Len(rec.nums) THEN "final" ELSE "save",
                !.i = @ + 1]

\* the exception of a failed kv.set leaves the handler: app.onError answers
\* 500 "Internal Server Error"
SaveFault(rec) == [rec EXCEPT !.pc = "done", !.result = "InternalError"]

\* one round of the loop in which kv.set fails (a fault of the store)
PlaceSaveFail(p) ==
    /\ pl[p].pc = "save"
    /\ pl' = [pl EXCEPT ![p] = SaveFault(@)]
    /\ UNCHANGED <<now, users, bets, results, tu, sw, rg, vw, paid>>

\* getUser(user.username) and the success answer
PlaceFinish(p) ==
    /\ pl[p].pc = "final"
    /\ pl' = [pl EXCEPT ![p] = [@ EXCEPT !.pc = "done", !.result = "Success",
                !.newBalance = IF users[pl[p].owner].exists
                               THEN users[pl[p].owner].balance
                               ELSE pl[p].user.balance - TotalCost(p)]]
    /\ UNCHANGED <<now, users, bets, results, tu, sw, rg, vw, paid>>

----------------------------------------------------------------------------
(* POST /admin/topup *)

TuIdle == [pc |-> "idle", target |-> "", amount |-> 0, targetUser |-> NoUser,
           chk |-> 0, result |-> "", preBal |-> 0, postBal |-> 0,
           nan |-> FALSE]

\* the check of the amount with < in the place of <=
TopupInvalidBelowZero(exists, nan, amount) == ~exists \/ nan \/ amount < 0

\* if (!targetUser || isNaN(amount) || amount <= 0)
TopupInvalid(exists, nan, amount) == ~exists \/ nan \/ amount <= 0

\* getUser(targetUsername) and the check of the user and the amount
TopupRead(t, targets, amounts, nans) ==
    /\ tu[t].pc = "idle"
    /\ \E target \in targets, amount \in amounts, nan \in nans :
        tu' = [tu EXCEPT ![t] =
                IF TopupInvalid(users[target].exists, nan, amount)
                THEN [@ EXCEPT !.pc = "done", !.target = target,
                               !.amount = amount, !.nan = nan,
                               !.targetUser = users[target],
                               !.result = "Error"]
                ELSE [@ EXCEPT !.pc = "preread", !.target = target,
                               !.amount = amount, !.targetUser = users[target]]]
    /\ UNCHANGED <<now, users, bets, results, pl, sw, rg, vw, paid>>

\* await kv.get(key): the entry handed to check()
TopupPreRead(t) ==
    /\ tu[t].pc = "preread"
    /\ tu' = [tu EXCEPT ![t] = [@ EXCEPT !.pc = "commit",
                                         !.chk = users[tu[t].target].ver]]
    /\ UNCHANGED <<now, users, bets, results, pl, sw, rg, vw, paid>>

\* the balance a top-up writes: { ...targetUser, balance: targetUser.balance + amount }
CreditedBalance(t) == tu[t].targetUser.balance + tu[t].amount

\* kv.atomic().check(entry).set(key, {...}).commit()
TopupCommit(t) ==
    /\ tu[t].pc = "commit"
    /\ IF users[tu[t].target].ver = tu[t].chk
       THEN /\ users' = PutUser(users, tu[t].target, CreditedBalance(t))
            /\ tu' = [tu EXCEPT ![t] = [@ EXCEPT !.pc = "done",
                        !.result = "Success",
                        !.preBal = users[tu[t].target].balance,
                        !.postBal = CreditedBalance(t)]]
       ELSE /\ users' = users
            /\ tu' = [tu EXCEPT ![t] = [@ EXCEPT !.pc = "done",
                        !.result = "ConcurrencyConflict"]]
    /\ UNCHANGED <<now, bets, results, pl, sw, rg, vw, paid>>

----------------------------------------------------------------------------
(* POST /register *)

RgIdle == [pc |-> "idle", username |-> "", result |-> ""]

\* the format check and getUser(username)
RegisterCheck(r, names, valids) ==
    /\ rg[r].pc = "idle"
    /\ \E username \in names, valid \in valids :
        rg' = [rg EXCEPT ![r] =
                IF ~valid THEN [@ EXCEPT !.pc = "done", !.username = username,
                                         !.result = "InvalidFormat"]
                ELSE IF users[username].exists
                THEN [@ EXCEPT !.pc = "done", !.username = username,
                               !.result = "Taken"]
                ELSE [@ EXCEPT !.pc = "save", !.username = username]]
    /\ UNCHANGED <<now, users, bets, results, pl, tu, sw, vw, paid>>

\* saveUser(newUser): kv.set(["users", username], { ..., balance: 0, ... })
RegisterSave(r) ==
    /\ rg[r].pc = "save"
    /\ users' = PutUser(users, rg[r].username, 0)
    /\ rg' = [rg EXCEPT ![r] = [@ EXCEPT !.pc = "done", !.result = "Registered"]]
    /\ UNCHANGED <<now, bets, results, pl, tu, sw, vw, paid>>

----------------------------------------------------------------------------
(* POST /admin/result and process2DWinnings *)

SwIdle == [pc |-> "idle", twod |-> <<>>, session |-> "", date |-> 0,
           today |-> 0, cursor |-> <<0, 0>>, last |-> FALSE, buf |-> <<>>,
           user |-> NoUser, winCount |-> 0, result |-> "",
           commits |-> 0, startIds |-> {}, prior |-> FALSE,
           crPre |-> 0, crPost |-> 0, crPay |-> 0, failed |-> {},
           startBal |-> [u \in Usernames |-> 0], moved |-> 0]

\* the key of a wager below the prefix ["2d_bets", date]: (username, id)
KeyOf(id) == <<UserRank(bets[id].username), id>>
KeyLess(a, b) == a[1] < b[1] \/ (a[1] = b[1] /\ a[2] < b[2])

\* the stored wagers below ["2d_bets", today] after the cursor
KeyRange(today, cursor) ==
    {id \in StoredIds : bets[id].date = today /\ KeyLess(cursor, KeyOf(id))}

RECURSIVE InKeyOrder(_)
InKeyOrder(S) ==
    IF S = {} THEN <<>>
    ELSE LET m == CHOOSE x \in S : \A y \in S : x = y \/ KeyLess(KeyOf(x), KeyOf(y))
         IN <<m>> \o InKeyOrder(S \ {m})

\* one batch of kv.list({ prefix: ["2d_bets", today] }): at most BatchSize
\* entries in key order, read as one snapshot
ListBatch(today, cursor) ==
    LET all == InKeyOrder(KeyRange(today, cursor))
        n == IF Len(all) < BatchSize THEN Len(all) ELSE BatchSize
    IN [i \in 1..n |-> [id |-> all[i], bet |-> bets[all[i]]]]

\* the filter of the loop without the test of the status
ToSettleAnyStatus(bet, session) == bet.session = session

\* if (bet.status === 'pending' && bet.session === session)
ToSettle(bet, session) == bet.status = "pending" /\ bet.session = session

\* twod.length !== 2 || isNaN(Number(twod)), over digits and letters
ValidTwod(twod) == Len(twod) = 2 /\ \A i \in 1..Len(twod) : twod[i] \in DigitSet

\* the check of the number, today (line 590) and saveResult(today, session, twod, time)
ResultPublish(s, twods, sessions, times) ==
    /\ sw[s].pc = "idle"
    /\ \E raw \in twods, session \in sessions, time \in times :
        LET twod == Trim(raw) IN
        IF ~ValidTwod(twod)
        THEN /\ sw' = [sw EXCEPT ![s] = [@ EXCEPT !.pc = "done",
                                                  !.result = "InvalidNumber"]]
             /\ results' = results
        ELSE /\ sw' = [sw EXCEPT ![s] = [@ EXCEPT !.pc = "saved", !.twod = twod,
                            !.session = session, !.date = Today(now)]]
             /\ results' = [results EXCEPT ![<<Today(now), session>>] =
                            [exists |-> TRUE, twod |-> twod, time |-> time]]
    /\ UNCHANGED <<now, users, bets, pl, tu, rg, vw, paid>>

\* process2DWinnings: today (line 62) and the iterator
SweepBegin(s) ==
    /\ sw[s].pc = "saved"
    /\ sw' = [sw EXCEPT ![s] = [@ EXCEPT !.pc = "list", !.today = Today(now),
                !.cursor = <<0, 0>>, !.startIds = StoredIds,
                !.startBal = [u \in Usernames |-> users[u].balance],
                !.prior = \E o \in Sweepers \ {s} :
                             /\ sw[o].pc = "done" /\ sw[o].result = "Settled"
                             /\ sw[o].today = Today(now)
                             /\ sw[o].session = sw[s].session
                             /\ sw[o].startIds = StoredIds]]
    /\ UNCHANGED <<now, users, bets, results, pl, tu, rg, vw, paid>>

\* where the loop stands once the entries up to the end of buf are consumed
AfterBuf(buf, last) ==
    IF buf # <<>> THEN "iter" ELSE IF last THEN "done" ELSE "list"

\* for await (const entry of iter): the iterator pulls the next batch; the
\* entries the if of the loop body skips need no further store access
SweepFetch(s) ==
    /\ sw[s].pc = "list"
    /\ LET batch == ListBatch(sw[s].today, sw[s].cursor)
           last == Len(batch) < BatchSize
           buf == SelectSeq(batch, LAMBDA e : ToSettle(e.bet, sw[s].session))
           next == AfterBuf(buf, last)
       IN sw' = [sw EXCEPT ![s] = [@ EXCEPT !.pc = next, !.buf = buf,
                    !.last = last,
                    !.cursor = IF batch = <<>> THEN @
                               ELSE <<UserRank(batch[Len(batch)].bet.username),
                                      batch[Len(batch)].id>>,
                    !.result = IF next = "done" THEN "Settled" ELSE @]]
    /\ UNCHANGED <<now, users, bets, results, pl, tu, rg, vw, paid>>

\* const isWin = bet.number === winningNumber
IsWin(s) == Head(sw[s].buf).bet.number = sw[s].twod

\* const user = await getUser(bet.username), for a winning wager
SweepGetUser(s) ==
    /\ sw[s].pc = "iter"
    /\ IsWin(s)
    /\ sw' = [sw EXCEPT ![s] = [@ EXCEPT !.pc = "credit",
                !.user = users[Head(sw[s].buf).bet.username]]]
    /\ UNCHANGED <<now, users, bets, results, pl, tu, rg, vw, paid>>

\* a payout of the winnings without the stake
PayoutProfitOnly(bet) == bet.amount * (Multiplier - 1)

\* const payout = bet.amount * multiplier
Payout(bet) == bet.amount * Multiplier

\* a sweep that resolves the winners only
NewStatusKeepsLosers(isWin) == IF isWin THEN "win" ELSE "pending"

\* the status the sweep writes: isWin ? 'win' : 'lose'
NewStatus(isWin) == IF isWin THEN "win" ELSE "lose"

\* a commit that carries the status only, the credit left for later
CreditsLater(isWin, user) == FALSE

\* if (isWin) { const user = ...; if (user) atomic = atomic.set(["users", ...]) }
Credits(isWin, user) == isWin /\ user.exists

\* atomic.set(entry.key, {...bet, status}) [.set(["users", ...], {...user,
\* balance: user.balance + payout})] .commit(), and winCount++
SweepCommit(s) ==
    /\ \/ sw[s].pc = "iter" /\ ~IsWin(s)
       \/ sw[s].pc = "credit"
    /\ LET e == Head(sw[s].buf)
           isWin == IsWin(s)
           credit == Credits(isWin, sw[s].user)
           newBal == sw[s].user.balance + Payout(e.bet)
           rest == Tail(sw[s].buf)
           next == AfterBuf(rest, sw[s].last)
       IN /\ bets' = [bets EXCEPT ![e.id] = [e.bet EXCEPT !.status = NewStatus(isWin)]]
          /\ users' = IF credit THEN PutUser(users, e.bet.username, newBal)
                      ELSE users
          /\ paid' = IF credit THEN [paid EXCEPT ![e.id] = @ + 1] ELSE paid
          /\ sw' = [sw EXCEPT ![s] = [@ EXCEPT !.pc = next, !.buf = rest,
                        !.user = NoUser,
                        !.winCount = IF isWin THEN @ + 1 ELSE @,
                        !.commits = @ + 1,
                        !.moved = IF credit /\ bets[e.id].status = "pending"
                                  THEN @ + 1 ELSE @,
                        !.crPre = IF credit THEN users[e.bet.username].balance ELSE @,
                        !.crPost = IF credit THEN newBal ELSE @,
                        !.crPay = IF credit THEN Payout(e.bet) ELSE @,
                        !.result = IF next = "done" THEN "Settled" ELSE @]]
    /\ UNCHANGED <<now, results, pl, tu, rg, vw>>

\* await atomic.commit() rejects (a fault of the store): nothing is written
\* and the exception leaves process2DWinnings and the handler; app.onError
\* answers 500
SweepCommitFail(s) ==
    /\ \/ sw[s].pc = "iter" /\ ~IsWin(s)
       \/ sw[s].pc = "credit"
    /\ sw' = [sw EXCEPT ![s] = [@ EXCEPT !.pc = "done", !.result = "InternalError",
                                         !.failed = @ \cup {Head(sw[s].buf).id}]]
    /\ UNCHANGED <<now, users, bets, results, pl, tu, rg, vw, paid>>

----------------------------------------------------------------------------
(* GET /2d and getRecentResults *)

VwIdle == [pc |-> "idle", owner |-> "", today |-> 0, cursor |-> 0,
           bets |-> <<>>, out |-> <<>>, recent |-> <<>>, result |-> "",
           startIds |-> {}]

\* getSessionUser(c); without an account the handler redirects to /login
ViewAuth(v, owners) ==
    /\ vw[v].pc = "idle"
    /\ \E owner \in owners :
        vw' = [vw EXCEPT ![v] =
                IF users[owner].exists
                THEN [@ EXCEPT !.pc = "auth", !.owner = owner]
                ELSE [@ EXCEPT !.pc = "done", !.owner = owner,
                               !.result = "Redirect"]]
    /\ UNCHANGED <<now, users, bets, results, pl, tu, sw, rg, paid>>

\* today (line 607) and the iterator over ["2d_bets", today, username]
ViewBegin(v) ==
    /\ vw[v].pc = "auth"
    /\ vw' = [vw EXCEPT ![v] = [@ EXCEPT !.pc = "list", !.today = Today(now),
                !.cursor = 0, !.startIds = StoredIds]]
    /\ UNCHANGED <<now, users, bets, results, pl, tu, sw, rg, paid>>

\* the stored wagers below ["2d_bets", today, username] after the cursor;
\* below that prefix the key order is the order of the ids
OwnRange(today, username, cursor) ==
    {id \in StoredIds : /\ bets[id].date = today
                        /\ bets[id].username = username
                        /\ id > cursor}

RECURSIVE InIdOrder(_)
InIdOrder(S) ==
    IF S = {} THEN <<>>
    ELSE LET m == CHOOSE x \in S : \A y \in S : x <= y
         IN <<m>> \o InIdOrder(S \ {m})

\* one batch of kv.list({ prefix: ["2d_bets", today, user.username] })
OwnBatch(today, username, cursor) ==
    LET all == InIdOrder(OwnRange(today, username, cursor))
        n == IF Len(all) < BatchSize THEN Len(all) ELSE BatchSize
    IN [i \in 1..n |-> [id |-> all[i], bet |-> bets[all[i]]]]

\* for await (const entry of betsIter) bets.push(entry.value)
ViewFetch(v) ==
    /\ vw[v].pc = "list"
    /\ LET batch == OwnBatch(vw[v].today, vw[v].owner, vw[v].cursor)
           last == Len(batch) < BatchSize
       IN vw' = [vw EXCEPT ![v] = [@ EXCEPT
                    !.pc = IF last THEN "results" ELSE "list",
                    !.bets = @ \o batch,
                    !.cursor = IF batch = <<>> THEN @
                               ELSE batch[Len(batch)].id]]
    /\ UNCHANGED <<now, users, bets, results, pl, tu, sw, rg, paid>>

\* the order of the strings "Evening" < "Morning" in a key
SessionRank(session) == IF session = "Evening" THEN 1 ELSE 2

\* ["results", d1, s1] sorts after ["results", d2, s2]
ResultKeyAfter(a, b) ==
    a[1] > b[1] \/ (a[1] = b[1] /\ SessionRank(a[2]) > SessionRank(b[2]))

RECURSIVE InReverseKeyOrder(_)
InReverseKeyOrder(K) ==
    IF K = {} THEN <<>>
    ELSE LET m == CHOOSE x \in K : \A y \in K : x = y \/ ResultKeyAfter(x, y)
         IN <<m>> \o InReverseKeyOrder(K \ {m})

\* getRecentResults(10)
RecentLimit == 10

\* kv.list({ prefix: ["results"] }, { limit, reverse: true }): the last
\* limit keys, the greatest key first, read as one batch
getRecentResults(limit) ==
    LET all == InReverseKeyOrder({k \in DOMAIN results : results[k].exists})
        n == IF Len(all) < limit THEN Len(all) ELSE limit
    IN [i \in 1..n |-> [date |-> all[i][1], session |-> all[i][2],
                        twod |-> results[all[i]].twod,
                        time |-> results[all[i]].time]]

\* Array.prototype.sort is stable: e goes behind the entries that do not
\* sort after it
RECURSIVE InsertByTimestamp(_, _)
InsertByTimestamp(e, sorted) ==
    IF sorted = <<>> THEN <<e>>
    ELSE IF Head(sorted).bet.timestamp >= e.bet.timestamp
         THEN <<Head(sorted)>> \o InsertByTimestamp(e, Tail(sorted))
         ELSE <<e>> \o sorted

\* the wagers handed to the page as the store enumerated them
StoreOrder(seq) == seq

\* bets.sort((a,b) => b.timestamp - a.timestamp)
RECURSIVE SortByTimestamp(_)
SortByTimestamp(seq) ==
    IF seq = <<>> THEN <<>>
    ELSE InsertByTimestamp(seq[Len(seq)], SortByTimestamp(SubSeq(seq, 1, Len(seq) - 1)))

\* await getRecentResults(10) and the page with the sorted wagers
ViewResults(v) ==
    /\ vw[v].pc = "results"
    /\ vw' = [vw EXCEPT ![v] = [@ EXCEPT !.pc = "done", !.result = "Page",
                !.recent = getRecentResults(RecentLimit),
                !.out = SortByTimestamp(vw[v].bets)]]
    /\ UNCHANGED <<now, users, bets, results, pl, tu, sw, rg, paid>>

----------------------------------------------------------------------------
(* The clock *)

Tick(max) ==
    /\ now < max
    /\ now' = now + 1
    /\ UNCHANGED <<users, bets, results, pl, tu, sw, rg, vw, paid>>

----------------------------------------------------------------------------
(* The ledger under concurrent handlers *)

Days == {Timeline[i].day : i \in 1..Len(Timeline)}

\* u1 is registered and holds one of the balances; no wager, no result, no
\* handler running
InitOn(balances, ids) ==
    /\ now = 1
    /\ \E b \in balances :
        users = [u \in Usernames |->
                  IF u = "u1" THEN [exists |-> TRUE, balance |-> b, ver |-> 1]
                  ELSE NoUser]
    /\ bets = [id \in ids |-> NoBet]
    /\ results = [k \in Days \X Sessions |-> NoResult]
    /\ pl = [p \in Placers |-> PlIdle]
    /\ tu = [t \in TopUppers |-> TuIdle]
    /\ sw = [s \in Sweepers |-> SwIdle]
    /\ rg = [r \in Registrars |-> RgIdle]
    /\ vw = [v \in Viewers |-> VwIdle]
    /\ paid = [id \in ids |-> 0]

InitWith(balances) == InitOn(balances, Ids)

N12 == <<"1", "2">>
N55 == <<"5", "5">>

\* the handlers of POST /api/2d/bet in Ps, betting for u1
Placement(Ps, types, raws) ==
    \/ \E p \in Ps : PlaceAuth(p, {"u1"})
    \/ \E p \in Ps : PlaceValidate(p, types, raws, {100}, {FALSE}, {FALSE})
    \/ \E p \in Ps : PlacePreRead(p)
    \/ \E p \in Ps : PlaceCommit(p)
    \/ \E p \in Ps : PlaceSaveBet(p)
    \/ \E p \in Ps : PlaceFinish(p)

\* the handlers of POST /admin/topup in Ts, crediting u1
TopUp(Ts) ==
    \/ \E t \in Ts : TopupRead(t, {"u1"}, {50}, {FALSE})
    \/ \E t \in Ts : TopupPreRead(t)
    \/ \E t \in Ts : TopupCommit(t)

\* the handlers of POST /admin/result in Ss
Settlement(Ss, twods, sessions) ==
    \/ \E s \in Ss : ResultPublish(s, twods, sessions, {"12:01"})
    \/ \E s \in Ss : SweepBegin(s)
    \/ \E s \in Ss : SweepFetch(s)
    \/ \E s \in Ss : SweepGetUser(s)
    \/ \E s \in Ss : SweepCommit(s)

\* the handlers of POST /register in Rs
Registration(Rs) ==
    \/ \E r \in Rs : RegisterCheck(r, {"u2"}, {TRUE})
    \/ \E r \in Rs : RegisterSave(r)

\* every kind of handler, one of each
Next ==
    \/ Placement({"p1"}, {"direct", "r"}, {N12, N55})
    \/ TopUp({"t1"})
    \/ Settlement({"s1"}, {N12}, {"Morning"})
    \/ Registration({"r1"})

Init == InitWith({LowBalance, InitBalance})

Spec == Init /\ [][Next]_vars

\* concurrent placements and a top-up on one account
NextLedger ==
    \/ Placement({"p1", "p2"}, {"direct", "r"}, {N12, N55})
    \/ TopUp({"t1"})

InitLedger == InitWith({InitBalance})

SpecLedger == InitLedger /\ [][NextLedger]_vars

\* overlapping settlements and a placement
NextSettle ==
    \/ Placement({"p1"}, {"direct", "r"}, {N12})
    \/ Settlement({"s1", "s2"}, {N12, N55}, {"Morning", "Evening"})

SpecSettle == InitLedger /\ [][NextSettle]_vars

----------------------------------------------------------------------------
(* Claims *)

RECURSIVE SumCost(_)
SumCost(Ps) ==
    IF Ps = {} THEN 0
    ELSE LET p == CHOOSE x \in Ps : TRUE IN TotalCost(p) + SumCost(Ps \ {p})

Committed(p) == pl[p].debited

\* C1: when only placements of one account ran, all of them have answered and
\* their combined totalCost is at most the starting balance, every one of them
\* succeeded and the stored balance is the starting balance minus the sum of
\* the totalCosts.
C1_NoLostDebit ==
    ( /\ \A p \in Placers : pl[p].pc = "done" /\ pl[p].owner = "u1"
      /\ \A t \in TopUppers : tu[t].pc = "idle"
      /\ SumCost(Placers) <= InitBalance )
    => ( /\ \A p \in Placers : pl[p].result = "Success"
         /\ users["u1"].balance = InitBalance - SumCost(Placers) )

\* C2: a placement whose debit committed found, in the store just before that
\* commit, a balance of at least its totalCost.
C2_DebitOnlyWhenFunded ==
    \A p \in Placers : Committed(p) => pl[p].preBal >= TotalCost(p)

\* C3: the payout of a wager is credited to its owner at most once.
C3_NoDoublePayout == \A id \in Ids : paid[id] <= 1

Settled(s) == sw[s].pc = "done" /\ sw[s].result = "Settled"

\* the stored wagers of a (date, session)
WagersOf(date, session) ==
    {id \in StoredIds : bets[id].date = date /\ bets[id].session = session}

C5_CreditKeepsOtherWrites ==
    \A s \in Sweepers :
        sw[s].crPay > 0 => sw[s].crPost = sw[s].crPre + sw[s].crPay

\* C6: a top-up that reports success leaves the balance that was in the store
\* just before its commit, plus amount.
C6_TopUpAddsToStored ==
    \A t \in TopUppers :
        tu[t].result = "Success" => tu[t].postBal = tu[t].preBal + tu[t].amount

\* C7: every account's stored balance is at least 0.
C7_BalanceNonNegative == \A u \in Usernames : users[u].balance >= 0

\* a registration, a top-up, a placement and a paying settlement have all run
C7_Witness ==
    /\ \E r \in Registrars : rg[r].result = "Registered"
    /\ \E t \in TopUppers : tu[t].result = "Success"
    /\ \E p \in Placers : pl[p].result = "Success"
    /\ \E s \in Sweepers : Settled(s) /\ sw[s].winCount > 0

\* C8: a placement of an account whose balance, as the handler read it, is
\* lower than totalCost answers InsufficientFunds, commits no debit and
\* creates no wager.
C8_InsufficientFundsRejected ==
    \A p \in Placers :
        (pl[p].nums # <<>> /\ pl[p].user.balance < TotalCost(p))
        => ( /\ pl[p].pc = "done" /\ pl[p].result = "InsufficientFunds"
             /\ ~pl[p].debited /\ pl[p].ids = {} )

\* a placement was rejected for a balance another placement had lowered
C8_Witness ==
    \E p \in Placers : \E q \in Placers \ {p} :
        /\ pl[p].result = "InsufficientFunds"
        /\ pl[p].user.balance < TotalCost(p)
        /\ pl[q].result = "Success"
        /\ users[pl[p].owner].balance = pl[p].user.balance

\* C9 as claimed: at the step that completes a settlement of (date, session),
\* no wager of that (date, session) is pending.
C9_NoPendingWhenSettled ==
    [][\A s \in Sweepers :
          (sw[s].pc # "done" /\ sw'[s].pc = "done" /\ sw'[s].result = "Settled")
          => \A id \in Ids :
                (bets'[id].date = sw'[s].today /\ bets'[id].session = sw'[s].session)
                => bets'[id].status # "pending"]_vars

\* C9: once a settlement of (date, session) has completed, no wager of that
\* (date, session) that was stored when the sweep began is pending.
C9_StoredBeforeSweepResolved ==
    \A s \in Sweepers :
        Settled(s) =>
            \A id \in sw[s].startIds :
                (bets[id].date = sw[s].today /\ bets[id].session = sw[s].session)
                => bets[id].status # "pending"

\* a settlement completed that found wagers of its session when it began
C9_Witness ==
    \E s \in Sweepers :
        /\ Settled(s) /\ sw[s].commits > 1
        /\ \E id \in sw[s].startIds : bets[id].status = "lose"

\* C10: a wager that is win or lose is never written again.
C10_ResolvedIsImmutable ==
    [][\A id \in Ids :
          bets[id].status \in {"win", "lose"} => bets'[id] = bets[id]]_vars

----------------------------------------------------------------------------
(* The end-to-end scenario: one Head placement, then two identical          *)
(* settlements, one after the other                                         *)

\* the ids a scenario lets crypto.randomUUID() draw: the least and the
\* greatest free id, so that wagers are stored in and against key order
EndIds ==
    {id \in FreeIds : \/ \A o \in FreeIds : id <= o
                      \/ \A o \in FreeIds : id >= o}

N7 == <<"7">>
N73 == <<"7", "3">>

InitScenario == InitOn({10000}, 1..10)

NextScenario ==
    \/ PlaceAuth("p1", {"u1"})
    \/ PlaceValidate("p1", {"head"}, {N7}, {100}, {FALSE}, {FALSE})
    \/ PlacePreRead("p1")
    \/ PlaceCommit("p1")
    \/ PlaceSaveBetIn("p1", EndIds)
    \/ PlaceFinish("p1")
    \/ pl["p1"].pc = "done" /\ Settlement({"s1"}, {N73}, {"Morning"})
    \/ Settled("s1") /\ Settlement({"s2"}, {N73}, {"Morning"})

SpecScenario == InitScenario /\ [][NextScenario]_vars

\* C11: after the Head placement on "7" with stake 100 by an account holding
\* 10,000 there are exactly the ten pending wagers "70".."79" of stake 100
\* and the balance is 9,000; after the settlement with "73" the wager "73" is
\* win, the nine others are lose and the balance is 17,000; the second
\* settlement writes nothing, so wagers and balance stay as they are.
C11_EndToEnd ==
    /\ (pl["p1"].result = "Success" /\ sw["s1"].commits = 0)
       => ( /\ Cardinality(StoredIds) = 10
            /\ {bets[id].number : id \in StoredIds}
                 = {<<"7", Digits[i]>> : i \in 1..10}
            /\ \A id \in StoredIds :
                  bets[id].status = "pending" /\ bets[id].amount = 100
            /\ users["u1"].balance = 9000 )
    /\ Settled("s1")
       => ( /\ Cardinality(StoredIds) = 10
            /\ {bets[id].number : id \in StoredIds}
                 = {<<"7", Digits[i]>> : i \in 1..10}
            /\ \A id \in StoredIds :
                  bets[id].status = IF bets[id].number = N73 THEN "win" ELSE "lose"
            /\ sw["s1"].winCount = 1
            /\ users["u1"].balance = 17000 )
    /\ Settled("s2") => (sw["s2"].commits = 0 /\ sw["s2"].winCount = 0)

\* both settlements have run to their end
C11_Witness == Settled("s1") /\ Settled("s2") /\ users["u1"].balance = 17000

----------------------------------------------------------------------------
(* One placement over every bet type and number input, with store faults   *)

N123 == <<"1", "2", "3">>
N1x == <<"1", "x">>
N7Padded == <<" ", "7", " ">>
N0 == <<"0">>
N90 == <<"9", "0">>

BetTypeInputs == {"direct", "r", "double", "head", "tail", "triple"}
NumberInputs == {<<>>, N0, N7, N7Padded, N12, N55, N90, N1x, N123}

InitExpand == InitOn({500, 2000}, 1..10)

NextExpand ==
    \/ PlaceAuth("p1", {"u1"})
    \/ PlaceValidate("p1", BetTypeInputs, NumberInputs, {50, 100, 200},
                     BOOLEAN, BOOLEAN)
    \/ PlacePreRead("p1")
    \/ PlaceCommit("p1")
    \/ PlaceSaveBetIn("p1", EndIds)
    \/ PlaceSaveFail("p1")
    \/ PlaceFinish("p1")

SpecExpand == InitExpand /\ [][NextExpand]_vars

\* the numbers of a sequence of numbers, as a set
NumberSet(nums) == {nums[i] : i \in 1..Len(nums)}

\* what a placement took off the balance that was in the store at its commit
Debited(p) == pl[p].preBal - users[pl[p].owner].balance

\* C12: the amount a successful placement debited is the stake times the
\* number of wagers it created, and that number is the size of the set of
\* expanded numbers (each of them stored once, with the full stake).
C12_CostIsStakeTimesWagers ==
    \A p \in Placers :
        pl[p].result = "Success" =>
            /\ Debited(p) = pl[p].amount * Cardinality(pl[p].ids)
            /\ Cardinality(pl[p].ids) = Cardinality(NumberSet(pl[p].nums))
            /\ {bets[id].number : id \in pl[p].ids} = NumberSet(pl[p].nums)

\* a Tail placement of stake 200 succeeded
C12_Witness ==
    \E p \in Placers :
        /\ pl[p].result = "Success" /\ pl[p].betType = "tail"
        /\ pl[p].amount = 200 /\ Cardinality(pl[p].ids) = 10

\* C13: a successful Reverse placement on a number with two equal digits
\* created one wager and debited the stake once; on any other number it
\* created the two wagers "ab" and "ba" and debited twice the stake.
C13_ReversePalindromeOnce ==
    \A p \in Placers :
        (pl[p].result = "Success" /\ pl[p].betType = "r") =>
            LET n == pl[p].number
                placed == {bets[id].number : id \in pl[p].ids}
            IN IF n[1] = n[2]
               THEN /\ Cardinality(pl[p].ids) = 1 /\ placed = {n}
                    /\ Debited(p) = pl[p].amount
               ELSE /\ Cardinality(pl[p].ids) = 2
                    /\ placed = {n, <<n[2], n[1]>>}
                    /\ Debited(p) = 2 * pl[p].amount

\* a Reverse placement on "55" succeeded
C13_Witness ==
    \E p \in Placers :
        pl[p].result = "Success" /\ pl[p].betType = "r" /\ pl[p].number = N55

\* C14: a placement that answered success committed its debit and persisted
\* every one of its expanded wagers.
C14_SuccessMeansAllPersisted ==
    \A p \in Placers :
        pl[p].result = "Success" =>
            /\ pl[p].debited
            /\ Cardinality(pl[p].ids) = Len(pl[p].nums)
            /\ pl[p].ids \subseteq StoredIds

\* a write of a wager failed after the debit and some wagers: no success
C14_Witness ==
    \E p \in Placers :
        /\ pl[p].pc = "done" /\ pl[p].result = "InternalError"
        /\ pl[p].debited /\ pl[p].ids # {}
        /\ Cardinality(pl[p].ids) < Len(pl[p].nums)

----------------------------------------------------------------------------
(* Draw results                                                            *)

\* C15: a result stored for a (date, session) is never mutated: publishing
\* for a (date, session) that already has a result leaves the stored winning
\* number and publication time as they were.
C15_ResultNeverMutated ==
    [][\A k \in DOMAIN results :
          results[k].exists =>
              /\ results'[k].exists
              /\ results'[k].twod = results[k].twod
              /\ results'[k].time = results[k].time]_vars

\* the handlers of GET /2d in Vs, for the accounts in owners
View(Vs, owners) ==
    \/ \E v \in Vs : ViewAuth(v, owners)
    \/ \E v \in Vs : ViewBegin(v)
    \/ \E v \in Vs : ViewFetch(v)
    \/ \E v \in Vs : ViewResults(v)

\* results published over two days while no wager is stored, and a reader
\* of the page
NextResults ==
    \/ \E s \in Sweepers : ResultPublish(s, {N12, N55}, Sessions, {"12:01", "16:30"})
    \/ \E s \in Sweepers : SweepBegin(s)
    \/ \E s \in Sweepers : SweepFetch(s)
    \/ View({"v1"}, {"u1", "u2"})
    \/ Tick(Len(Timeline))

SpecResults == InitLedger /\ [][NextResults]_vars

\* C16: the results the page got are at most limit and the most recent draw
\* comes first: a later date before an earlier one and, on one date, the
\* Evening result before the Morning result.
C16_RecentResultsNewestFirst ==
    \A v \in Viewers :
        vw[v].result = "Page" =>
            LET r == vw[v].recent IN
            /\ Len(r) <= RecentLimit
            /\ \A i \in 1..Len(r) : \A j \in 1..Len(r) :
                i < j =>
                    \/ r[i].date > r[j].date
                    \/ /\ r[i].date = r[j].date
                       /\ r[i].session = "Evening" /\ r[j].session = "Morning"

----------------------------------------------------------------------------
(* The wager history of the page, with placements of two accounts          *)

\* u1 and u2 are registered and funded; no wager, no result
InitView ==
    /\ now = 1
    /\ users = [u \in Usernames |->
                  [exists |-> TRUE, balance |-> InitBalance, ver |-> 1]]
    /\ bets = [id \in Ids |-> NoBet]
    /\ results = [k \in Days \X Sessions |-> NoResult]
    /\ pl = [p \in Placers |-> PlIdle]
    /\ tu = [t \in TopUppers |-> TuIdle]
    /\ sw = [s \in Sweepers |-> SwIdle]
    /\ rg = [r \in Registrars |-> RgIdle]
    /\ vw = [v \in Viewers |-> VwIdle]
    /\ paid = [id \in Ids |-> 0]

NextView ==
    \/ PlaceAuth("p1", {"u1"})
    \/ PlaceAuth("p2", Usernames)
    \/ \E p \in Placers : PlaceValidate(p, {"direct"}, {N12}, {100}, {FALSE}, {FALSE})
    \/ \E p \in Placers : PlacePreRead(p)
    \/ \E p \in Placers : PlaceCommit(p)
    \/ \E p \in Placers : PlaceSaveBet(p)
    \/ \E p \in Placers : PlaceFinish(p)
    \/ View(Viewers, {"u1"})
    \/ Tick(Len(Timeline))

SpecView == InitView /\ [][NextView]_vars

\* the wagers stored below ["2d_bets", today, owner] of a reader
StoredFor(v) ==
    {id \in StoredIds : /\ bets[id].date = vw[v].today
                        /\ bets[id].username = vw[v].owner}

ListedIds(v) == {vw[v].out[i].id : i \in 1..Len(vw[v].out)}

\* the page holds wagers of the reader's date and account only, each one
\* once and as stored, every one that was stored when the listing began, and
\* in non-increasing order of timestamp
ListingExact ==
    \A v \in Viewers :
        vw[v].result = "Page" =>
            LET out == vw[v].out IN
            /\ ListedIds(v) \subseteq StoredFor(v)
            /\ (vw[v].startIds \cap StoredFor(v)) \subseteq ListedIds(v)
            /\ Cardinality(ListedIds(v)) = Len(out)
            /\ \A i \in 1..Len(out) : out[i].bet = bets[out[i].id]
            /\ \A i \in 1..Len(out) : \A j \in 1..Len(out) :
                i < j => out[i].bet.timestamp >= out[j].bet.timestamp

\* no step of a reader changes an account, a wager or a result
ListingReadOnly ==
    [][vw' # vw => UNCHANGED <<users, bets, results>>]_vars

\* C17: the wager listing for (date, owner) returns exactly the wagers stored
\* for that date and owner, none of another owner or date, in non-increasing
\* order of timestamp whatever the order of the store, and changes no stored
\* state.
C17_ListingExactSortedReadOnly == []ListingExact /\ ListingReadOnly

\* a page whose wagers the store enumerated oldest first
C17_Witness ==
    \E v \in Viewers :
        /\ vw[v].result = "Page" /\ Len(vw[v].out) >= 2
        /\ vw[v].out # vw[v].bets

\* a page that left out a stored wager of another account of the same date
ListingSkipsOtherOwner ==
    \E v \in Viewers :
        /\ vw[v].result = "Page" /\ vw[v].out # <<>>
        /\ \E id \in StoredIds : /\ bets[id].date = vw[v].today
                                 /\ bets[id].username # vw[v].owner

\* a page that left out a stored wager of the reader of another date
ListingSkipsOtherDate ==
    \E v \in Viewers :
        /\ vw[v].result = "Page" /\ vw[v].out # <<>>
        /\ \E id \in StoredIds : /\ bets[id].date # vw[v].today
                                 /\ bets[id].username = vw[v].owner

----------------------------------------------------------------------------
(* Top-ups with every kind of input, beside a placement and a registration *)

NextTopup ==
    \/ \E t \in TopUppers : TopupRead(t, Usernames, {-50, 0, 50}, BOOLEAN)
    \/ \E t \in TopUppers : TopupPreRead(t)
    \/ \E t \in TopUppers : TopupCommit(t)
    \/ Placement({"p1"}, {"direct"}, {N12})
    \/ Registration({"r1"})

SpecTopup == Init /\ [][NextTopup]_vars

\* C18: a top-up for an account that does not exist, or with an amount that
\* is not a number or is at most 0, ends with an error at its first step,
\* which creates no account and changes no balance.
C18_InvalidTopUpChangesNothing ==
    [][\A t \in TopUppers :
          (/\ tu[t].pc = "idle" /\ tu'[t].pc # "idle"
           /\ \/ ~users[tu'[t].target].exists
              \/ tu'[t].nan
              \/ tu'[t].amount <= 0)
          => /\ tu'[t].pc = "done" /\ tu'[t].result = "Error"
             /\ users' = users]_vars

\* a top-up of 50 for the unregistered u2 ended with an error, u2 still absent
C18_Witness ==
    \E t \in TopUppers :
        /\ tu[t].pc = "done" /\ tu[t].result = "Error"
        /\ tu[t].target = "u2" /\ tu[t].amount = 50 /\ ~tu[t].nan
        /\ ~users["u2"].exists

----------------------------------------------------------------------------
(* The debit of a placement and its wagers                                 *)

\* C19: the debit of a placement commits only if no other writer changed
\* the account since the placement read the balance it computes the new
\* balance from: the version its commit checked is the version of that read.
C19_DebitChecksTheBalanceRead ==
    \A p \in Placers : pl[p].debited => pl[p].chk = pl[p].user.ver

\* every stored wager belongs to a placement whose debit committed, and a
\* placement that ended with a conflict debited nothing and stored nothing
WagersFollowDebit ==
    /\ \A id \in StoredIds : \E p \in Placers : id \in pl[p].ids /\ pl[p].debited
    /\ \A p \in Placers :
        pl[p].result = "ConcurrencyConflict" => pl[p].ids = {} /\ ~pl[p].debited

\* the step that ends a placement with a conflict writes nothing
ConflictWritesNothing ==
    [][\A p \in Placers :
          (pl[p].result # "ConcurrencyConflict"
           /\ pl'[p].result = "ConcurrencyConflict")
          => UNCHANGED <<users, bets>>]_vars

\* C20: wagers are written only after the debit committed: each stored
\* wager belongs to a placement whose debit committed, and a placement that
\* ends with ConcurrencyConflict leaves the balance unchanged and stores no
\* wager.
C20_WagersOnlyAfterDebit == []WagersFollowDebit /\ ConflictWritesNothing

\* one placement ended with a conflict beside the stored wager of another
C20_Witness ==
    \E p \in Placers : \E q \in Placers \ {p} :
        /\ pl[p].pc = "done" /\ pl[p].result = "ConcurrencyConflict"
        /\ pl[q].debited /\ pl[q].ids # {}

----------------------------------------------------------------------------
(* Retries of the debit                                                    *)

\* C21: a placement whose debit lost a race re-reads the account and tries
\* the write again, and reports ConcurrencyConflict only after the retries
\* lost too: a placement that ended with a conflict tried more than once.
C21_ConflictOnlyAfterRetries ==
    \A p \in Placers : pl[p].result = "ConcurrencyConflict" => pl[p].tries > 1

----------------------------------------------------------------------------
(* The commit of one wager by the sweep                                    *)

\* C22: the status win of a wager and the credit of its payout commit in one
\* step: in no reachable state is a wager win without its credit written,
\* and in none is a credit written for a wager that is still pending.
C22_WinAndCreditTogether ==
    \A id \in StoredIds :
        /\ bets[id].status = "win" => paid[id] >= 1
        /\ paid[id] >= 1 => bets[id].status # "pending"

\* a sweep stands between reading the account of a winner and its commit,
\* beside a wager another sweep has resolved as win and credited
C22_Witness ==
    /\ \E s \in Sweepers : sw[s].pc = "credit"
    /\ \E id \in StoredIds : bets[id].status = "win" /\ paid[id] = 1

----------------------------------------------------------------------------
(* A sweep whose commits may fail                                          *)

NextSweepFault ==
    \/ Placement({"p1"}, {"direct", "r"}, {N12})
    \/ Settlement({"s1"}, {N12, N55}, {"Morning"})
    \/ SweepCommitFail("s1")

SpecSweepFault == InitLedger /\ [][NextSweepFault]_vars

\* the wagers of the sweep's date and session that were stored when it began
SweepScope(s) ==
    {id \in sw[s].startIds : /\ bets[id].date = sw[s].today
                             /\ bets[id].session = sw[s].session}

\* C23: a failed commit for one wager does not stop the sweep: once the
\* sweep has ended, every wager of its date and session that was stored when
\* it began is resolved, but for those whose own commit failed.
C23_FailedCommitDoesNotStopSweep ==
    \A s \in Sweepers :
        (sw[s].pc = "done" /\ sw[s].result \in {"Settled", "InternalError"}) =>
            \A id \in SweepScope(s) \ sw[s].failed : bets[id].status # "pending"

----------------------------------------------------------------------------
(* The numbers a placement puts its stake on                               *)

\* the expansion of a bet type and a valid number, as a set of numbers
ReferenceExpansion(betType, n) ==
    IF betType = "direct" THEN {n}
    ELSE IF betType = "r" THEN {n, <<n[2], n[1]>>}
    ELSE IF betType = "double" THEN {<<d, d>> : d \in DigitSet}
    ELSE IF betType = "head" THEN {<<n[1], d>> : d \in DigitSet}
    ELSE {<<d, n[1]>> : d \in DigitSet}

PlacedNumbers(p) == {bets[id].number : id \in pl[p].ids}

\* C24: the numbers a successful placement placed are the reference
\* expansion of its bet type and number; each is a string of two digits and
\* none is placed twice.
C24_ExpansionIsReference ==
    \A p \in Placers :
        pl[p].result = "Success" =>
            /\ PlacedNumbers(p) = ReferenceExpansion(pl[p].betType, pl[p].number)
            /\ \A n \in PlacedNumbers(p) :
                Len(n) = 2 /\ n[1] \in DigitSet /\ n[2] \in DigitSet
            /\ Cardinality(pl[p].ids) = Cardinality(PlacedNumbers(p))

\* a Tail placement on "0" succeeded
C24_Witness ==
    \E p \in Placers :
        pl[p].result = "Success" /\ pl[p].betType = "tail" /\ pl[p].number = N0

\* C25: a Double placement never ends in an uncontrolled fault before its
\* debit, whatever the number sent with it (absent, empty or no digit), and
\* a successful one has placed exactly "00", "11", ..., "99".
C25_DoubleIgnoresNumber ==
    \A p \in Placers :
        pl[p].betType = "double" =>
            /\ ~pl[p].debited => pl[p].result # "InternalError"
            /\ pl[p].result = "Success" =>
                /\ PlacedNumbers(p) = {<<d, d>> : d \in DigitSet}
                /\ Cardinality(pl[p].ids) = 10

----------------------------------------------------------------------------
(* Placements while the clock runs over the session boundaries             *)

NextClock ==
    \/ \E p \in Placers : PlaceAuth(p, {"u1"})
    \/ \E p \in Placers : PlaceValidate(p, {"direct", "r", "triple"}, {N12, N7},
                                        {50, 100}, BOOLEAN, {FALSE})
    \/ \E p \in Placers : PlacePreRead(p)
    \/ \E p \in Placers : PlaceCommit(p)
    \/ \E p \in Placers : PlaceSaveBet(p)
    \/ \E p \in Placers : PlaceFinish(p)
    \/ Tick(Len(Timeline))

SpecClock == InitLedger /\ [][NextClock]_vars

\* a rejected placement has debited nothing and stored nothing
RejectedWroteNothing ==
    \A p \in Placers :
        pl[p].result \in {"ValidationError", "MarketClosed"} =>
            /\ pl[p].pc = "done" /\ pl[p].tries = 0
            /\ ~pl[p].debited /\ pl[p].ids = {}

\* every placement that debited had a stake of at least 100, a known bet
\* type, a number of the length of its type made of digits, and an open
\* session
DebitedWasValid ==
    \A p \in Placers :
        pl[p].debited =>
            LET n == pl[p].number IN
            /\ pl[p].amount >= 100
            /\ pl[p].hour < 16
            /\ \/ pl[p].betType = "double"
               \/ /\ pl[p].betType \in {"direct", "r"}
                  /\ Len(n) = 2 /\ n[1] \in DigitSet /\ n[2] \in DigitSet
               \/ /\ pl[p].betType \in {"head", "tail"}
                  /\ Len(n) = 1 /\ n[1] \in DigitSet

\* the step that rejects a placement changes no account and no wager
RejectionWritesNothing ==
    [][\A p \in Placers :
          (pl[p].result = ""
           /\ pl'[p].result \in {"ValidationError", "MarketClosed"})
          => UNCHANGED <<users, bets>>]_vars

ReferenceSession(h) == IF h < 12 THEN "Morning" ELSE "Evening"

\* C27: the session is a function of the civil hour: Morning before 12,
\* Evening from 12 to before 16, closed from 16 on; every wager carries the
\* session resolved for its placement, and a placement made at 16 or later
\* creates no wager.
C27_SessionByHour ==
    /\ \A h \in 0..23 :
        SessionOf(h) = IF h >= 16 THEN "Closed" ELSE ReferenceSession(h)
    /\ \A p \in Placers :
        pl[p].pc \notin {"idle", "auth"} =>
            /\ \A id \in pl[p].ids :
                bets[id].session = ReferenceSession(pl[p].hour)
            /\ pl[p].hour >= 16 =>
                /\ pl[p].ids = {} /\ ~pl[p].debited
                /\ pl[p].result \in {"MarketClosed", "ValidationError"}

\* an Evening wager of a placement made at 12 is stored, and a placement
\* made at 16 was turned away
C27_Witness ==
    /\ \E p \in Placers :
        /\ pl[p].hour = 12
        /\ \E id \in pl[p].ids : bets[id].session = "Evening"
    /\ \E p \in Placers : pl[p].hour = 16 /\ pl[p].result = "MarketClosed"

\* C29: all wagers of one placement carry the same timestamp, even when the
\* clock advances between the writes of the wagers.
C29_OneTimestampPerPlacement ==
    \A p \in Placers :
        \A a \in pl[p].ids : \A b \in pl[p].ids :
            bets[a].timestamp = bets[b].timestamp

----------------------------------------------------------------------------
(* The wagers of a successful placement                                    *)

\* C28: a successful placement created exactly one wager per expanded
\* number; each is pending, belongs to the placing owner, carries the full
\* stake, the date and the session of the placement, and an id no wager of
\* another placement has.
C28_OneFullWagerPerNumber ==
    \A p \in Placers :
        pl[p].result = "Success" =>
            /\ Cardinality(pl[p].ids) = Len(pl[p].nums)
            /\ \A i \in 1..Len(pl[p].nums) :
                Cardinality({id \in pl[p].ids :
                                bets[id].number = pl[p].nums[i]}) = 1
            /\ \A id \in pl[p].ids :
                /\ bets[id].status = "pending"
                /\ bets[id].username = pl[p].owner
                /\ bets[id].amount = pl[p].amount
                /\ bets[id].date = pl[p].date
                /\ bets[id].session = pl[p].session
            /\ \A q \in Placers \ {p} : pl[p].ids \cap pl[q].ids = {}

\* a Reverse placement on "12" and another placement both succeeded
C28_Witness ==
    \E p \in Placers : \E q \in Placers \ {p} :
        /\ pl[p].result = "Success" /\ pl[p].betType = "r"
        /\ Cardinality(pl[p].ids) = 2
        /\ pl[q].result = "Success"

----------------------------------------------------------------------------
(* What a sweep may change                                                 *)

\* C30: a step of a sweep changes only wagers that are pending and have the
\* date and session of the sweep, and only the balance of the owner of a
\* wager that step resolves as win; resolved wagers, wagers of another
\* session or date and all other balances stay as they are.
C30_SweepChangesOnlyItsPending ==
    [][\A s \in Sweepers :
          sw'[s] # sw[s] =>
              /\ \A id \in DOMAIN bets :
                  bets'[id] # bets[id] =>
                      /\ bets[id].status = "pending"
                      /\ bets[id].session = sw[s].session
                      /\ bets[id].date = sw[s].today
              /\ \A u \in Usernames :
                  users'[u] # users[u] =>
                      \E id \in DOMAIN bets :
                          /\ bets[id].username = u
                          /\ bets[id].status = "pending"
                          /\ bets'[id].status = "win"]_vars

----------------------------------------------------------------------------
(* A settlement run after the placements of two accounts have ended        *)

NextSequential ==
    \/ \E p \in Placers : PlaceAuth(p, Usernames)
    \/ \E p \in Placers : PlaceValidate(p, {"direct", "r"}, {N12}, {100}, {FALSE}, {FALSE})
    \/ \E p \in Placers : PlacePreRead(p)
    \/ \E p \in Placers : PlaceCommit(p)
    \/ \E p \in Placers : PlaceSaveBet(p)
    \/ \E p \in Placers : PlaceFinish(p)
    \/ /\ \A p \in Placers : pl[p].pc = "done"
       /\ Settlement({"s1"}, {N12, N55}, Sessions)

SpecSequential == InitView /\ [][NextSequential]_vars

RECURSIVE SumStakes(_)
SumStakes(S) ==
    IF S = {} THEN 0
    ELSE LET id == CHOOSE x \in S : TRUE IN bets[id].amount + SumStakes(S \ {id})

\* the wagers of an owner in the scope of a sweep that carry its number
WinnersOf(s, u) ==
    {id \in SweepScope(s) : bets[id].username = u /\ bets[id].number = sw[s].twod}

\* C31: after a settlement run with no concurrent writer every wager of its
\* date and session is win if its number is the winning number and lose
\* otherwise, and the balance of each owner has grown by 80 times the stakes
\* of that owner's winning wagers, also with several winners of one owner.
C31_SequentialSettlement ==
    \A s \in Sweepers :
        Settled(s) =>
            /\ \A id \in SweepScope(s) :
                bets[id].status =
                    IF bets[id].number = sw[s].twod THEN "win" ELSE "lose"
            /\ \A u \in Usernames :
                users[u].balance =
                    sw[s].startBal[u] + 80 * SumStakes(WinnersOf(s, u))

\* a sweep has paid two winning wagers of one owner
C31_Witness ==
    \E s \in Sweepers : \E u \in Usernames :
        /\ Settled(s) /\ Cardinality(WinnersOf(s, u)) = 2
        /\ \E id \in SweepScope(s) : bets[id].status = "lose"

\* C32: the count a sweep returns is the number of wagers this sweep moved
\* from pending to win and credited; losers and wagers resolved before are
\* not counted.
C32_PaidCountIsMovedToWin ==
    \A s \in Sweepers : Settled(s) => sw[s].winCount = sw[s].moved

----------------------------------------------------------------------------
(* Placements after the result of their session                            *)

NextLate ==
    \/ PlaceAuth("p1", {"u1"})
    \/ PlaceValidate("p1", {"direct", "triple"}, {N12, N7}, {50, 100},
                     BOOLEAN, {FALSE})
    \/ PlacePreRead("p1")
    \/ PlaceCommit("p1")
    \/ PlaceSaveBet("p1")
    \/ PlaceFinish("p1")
    \/ Settlement({"s1"}, {N12}, Sessions)
    \/ Tick(Len(Timeline))

SpecLate == Init /\ [][NextLate]_vars

\* the bet type is known and the number has the length of its type
ValidInput(p) ==
    LET n == pl[p].number IN
    \/ pl[p].betType = "double"
    \/ /\ pl[p].betType \in {"direct", "r"}
       /\ Len(n) = 2 /\ n[1] \in DigitSet /\ n[2] \in DigitSet
    \/ /\ pl[p].betType \in {"head", "tail"}
       /\ Len(n) = 1 /\ n[1] \in DigitSet

\* C33: no placement is turned away because the result of its session is
\* stored: every rejection has its cause in the stake, the hour, the bet
\* type, the number or the balance; a placement made after the settlement of
\* its (date, session) debits and leaves pending wagers for that session.
C33_NoGuardByResult ==
    \A p \in Placers :
        /\ pl[p].result \in {"ValidationError", "MarketClosed", "InsufficientFunds"} =>
            \/ pl[p].nan \/ pl[p].amount < 100
            \/ pl[p].hour >= 16
            \/ ~ValidInput(p)
            \/ pl[p].user.balance <
                  pl[p].amount *
                  Cardinality(ReferenceExpansion(pl[p].betType, pl[p].number))
        /\ (pl[p].afterSettle /\ pl[p].result = "Success") =>
            /\ pl[p].debited /\ pl[p].ids # {}
            /\ \A id \in pl[p].ids :
                /\ bets[id].status = "pending"
                /\ bets[id].date = pl[p].date
                /\ bets[id].session = pl[p].session
                /\ results[<<pl[p].date, pl[p].session>>].exists

\* a placement made after the settlement of its session succeeded
C33_Witness ==
    \E p \in Placers :
        /\ pl[p].afterSettle /\ pl[p].result = "Success"
        /\ pl[p].debited /\ pl[p].ids # {}

\* C36: within one publication the date the result is stored under and the
\* date whose wagers the sweep lists are the same, even when the clock
\* advances past midnight between the two.
C36_ResultDateIsSweepDate ==
    \A s \in Sweepers :
        sw[s].pc \in {"list", "iter", "credit", "done"} /\ sw[s].result # "InvalidNumber"
            => sw[s].date = sw[s].today

----------------------------------------------------------------------------
(* Handlers on two accounts                                                *)

NextPartition ==
    \/ PlaceAuth("p1", {"u1"})
    \/ PlaceAuth("p2", Usernames)
    \/ \E p \in Placers : PlaceValidate(p, {"direct"}, {N12}, {100}, {FALSE}, {FALSE})
    \/ \E p \in Placers : PlacePreRead(p)
    \/ \E p \in Placers : PlaceCommit(p)
    \/ \E p \in Placers : PlaceSaveBet(p)
    \/ \E p \in Placers : PlaceFinish(p)
    \/ \E t \in TopUppers : TopupRead(t, Usernames, {50}, {FALSE})
    \/ \E t \in TopUppers : TopupPreRead(t)
    \/ \E t \in TopUppers : TopupCommit(t)

SpecPartition == InitView /\ [][NextPartition]_vars

\* another handler has written the account u
OtherWriterOf(u, h) ==
    \/ \E q \in Placers \ {h} : pl[q].owner = u /\ pl[q].debited
    \/ \E t \in TopUppers \ {h} :
        tu[t].target = u /\ tu[t].pc = "done" /\ tu[t].result = "Success"

\* a conflict of a handler has its cause in a write of the same account
ConflictsWithinAccount ==
    /\ \A p \in Placers :
        pl[p].result = "ConcurrencyConflict" => OtherWriterOf(pl[p].owner, p)
    /\ \A t \in TopUppers :
        tu[t].result = "ConcurrencyConflict" => OtherWriterOf(tu[t].target, t)

\* a step of a placement or a top-up changes the balance of its account only
WritesOwnAccountOnly ==
    [][/\ \A p \in Placers :
            pl'[p] # pl[p] =>
                \A u \in Usernames \ {pl'[p].owner} :
                    users'[u].balance = users[u].balance
       /\ \A t \in TopUppers :
            tu'[t] # tu[t] =>
                \A u \in Usernames \ {tu'[t].target} :
                    users'[u].balance = users[u].balance]_vars

\* C34: contention is partitioned by account: a placement or top-up on an
\* account changes the balance of no other account and ends with
\* ConcurrencyConflict only if another handler wrote that same account,
\* never because of writes of another account or of wager records.
C34_ContentionPerAccount == []ConflictsWithinAccount /\ WritesOwnAccountOnly

\* a placement on u1 succeeded although a placement and a top-up wrote u2
\* while it ran
C34_Witness ==
    /\ pl["p1"].result = "Success" /\ pl["p1"].owner = "u1"
    /\ pl["p2"].owner = "u2" /\ pl["p2"].ids # {}
    /\ \E t \in TopUppers : tu[t].target = "u2" /\ tu[t].result = "Success"
    /\ users["u2"].ver > pl["p1"].chk

----------------------------------------------------------------------------
(* Two registrations of one username                                       *)

NextRegister ==
    \/ Registration(Registrars)
    \/ \E t \in TopUppers : TopupRead(t, {"u2"}, {50}, {FALSE})
    \/ \E t \in TopUppers : TopupPreRead(t)
    \/ \E t \in TopUppers : TopupCommit(t)
    \/ PlaceAuth("p1", {"u2"})
    \/ PlaceValidate("p1", {"direct"}, {N12}, {100}, {FALSE}, {FALSE})

SpecRegister == Init /\ [][NextRegister]_vars

\* C35: a registration never overwrites an account: a step of a
\* registration leaves every account that exists in the store as it is, so
\* that its balance is not reset to 0.
C35_RegistrationKeepsAccounts ==
    [][\A r \in Registrars :
          rg'[r] # rg[r] =>
              \A u \in Usernames :
                  users[u].exists =>
                      /\ users'[u].exists
                      /\ users'[u].balance = users[u].balance]_vars

====
